---- MODULE Spec2Model ----
(***************************************************************************)
(* Model of veusz setting/setting.py: the Setting base class and its nine  *)
(* variants (Str, Bool, Int, Float, FloatOrAuto, IntOrAuto, Distance,      *)
(* Choice, ChoiceOrMore).                                                  *)
(*                                                                         *)
(* Python values are tagged records.  Text is a sequence of one-character  *)
(* strings, so that strip(), lower(), int(), float() and str() are         *)
(* computed character by character.                                        *)
(***************************************************************************)
EXTENDS Integers, Sequences, FiniteSets, TLC

VARIABLES kind, vallist, constructed, val, default, onmodified, op, arg, ret, calls

vars == <<kind, vallist, constructed, val, default, onmodified, op, arg, ret, calls>>

(* ---------------------------- bounds ----------------------------------- *)

\* integers passed by callers range over -MaxInt..MaxInt
MaxInt == 1
\* at most MaxObs callbacks are registered on one setting
MaxObs == 2

(* ------------------------- Python values ------------------------------- *)

PyNone == [t |-> "NoneType"]
PyBool(b) == [t |-> "bool", b |-> b]
PyInt(n) == [t |-> "int", n |-> n]
\* a float: k is "fin", "nan", "inf" or "-inf"; a finite float is n tenths,
\* and lo = 1 says it carries more significant digits than str() prints
PyFloat(k, n, lo) == [t |-> "float", k |-> k, n |-> n, lo |-> lo]
PyStr(s) == [t |-> "str", s |-> s]
\* an exception propagating out of a call
Raise(e) == [t |-> "raise", exc |-> e]
InvalidType == Raise("InvalidType")
ValueError == Raise("ValueError")
\* self.val before __init__ has assigned it
NoAttr == [t |-> "unset"]

type(v) == v.t

\* Python's ==: numbers compare by value across bool, int and float, and a
\* NaN equals nothing; text by content; other types only with themselves
IsNum(v) == type(v) \in {"bool", "int", "float"}
Tenths(v) ==
    CASE type(v) = "bool" -> IF v.b THEN 10 ELSE 0
      [] type(v) = "int" -> 10 * v.n
      [] OTHER -> v.n
FloatKind(v) == IF type(v) = "float" THEN v.k ELSE "fin"
LowDigits(v) == IF type(v) = "float" THEN v.lo ELSE 0
PyEq(a, b) ==
    IF IsNum(a) /\ IsNum(b)
    THEN /\ FloatKind(a) # "nan"
         /\ FloatKind(a) = FloatKind(b)
         /\ FloatKind(a) = "fin" => Tenths(a) = Tenths(b) /\ LowDigits(a) = LowDigits(b)
    ELSE a = b

\* bool(val) of an int or bool
py_bool(v) == IF type(v) = "bool" THEN v ELSE PyBool(v.n # 0)
\* float(val) of an int or float
py_float_num(v) == IF type(v) = "float" THEN v ELSE PyFloat("fin", 10 * v.n, 0)

(* ----------------------------- text ------------------------------------ *)

Upper == <<"A","B","C","D","E","F","G","H","I","J","K","L","M",
           "N","O","P","Q","R","S","T","U","V","W","X","Y","Z">>
Lowercase == <<"a","b","c","d","e","f","g","h","i","j","k","l","m",
               "n","o","p","q","r","s","t","u","v","w","x","y","z">>
Digits == <<"0","1","2","3","4","5","6","7","8","9">>
Whitespace == {" ", "\t", "\n"}

Range(s) == {s[i] : i \in 1..Len(s)}
LowerChar(c) ==
    IF c \in Range(Upper)
    THEN Lowercase[CHOOSE i \in 1..Len(Upper) : Upper[i] = c]
    ELSE c
\* str.lower()
lower(s) == [i \in 1..Len(s) |-> LowerChar(s[i])]

RECURSIVE lstrip(_)
lstrip(s) == IF s # <<>> /\ Head(s) \in Whitespace THEN lstrip(Tail(s)) ELSE s
RECURSIVE rstrip(_)
rstrip(s) ==
    IF s # <<>> /\ s[Len(s)] \in Whitespace
    THEN rstrip(SubSeq(s, 1, Len(s) - 1))
    ELSE s
\* str.strip()
strip(s) == rstrip(lstrip(s))

IsDigits(s) == s # <<>> /\ \A i \in 1..Len(s) : s[i] \in Range(Digits)
DigitVal(c) == CHOOSE d \in 0..9 : Digits[d + 1] = c
RECURSIVE ParseNat(_)
ParseNat(s) ==
    IF s = <<>> THEN 0
    ELSE 10 * ParseNat(SubSeq(s, 1, Len(s) - 1)) + DigitVal(s[Len(s)])
RECURSIVE NatToText(_)
NatToText(n) ==
    IF n < 10 THEN <<Digits[n + 1]>>
    ELSE NatToText(n \div 10) \o <<Digits[(n % 10) + 1]>>

HasSign(s) == s # <<>> /\ Head(s) \in {"+", "-"}
Unsigned(s) == IF HasSign(s) THEN Tail(s) ELSE s
Sign(s) == IF s # <<>> /\ Head(s) = "-" THEN -1 ELSE 1

\* int(text): surrounding whitespace, an optional sign, decimal digits
py_int(text) ==
    LET s == strip(text.s)
    IN  IF IsDigits(Unsigned(s))
        THEN PyInt(Sign(s) * ParseNat(Unsigned(s)))
        ELSE ValueError

\* position of the first "." of s, or 0
DotAt(s) ==
    IF "." \in Range(s)
    THEN CHOOSE i \in 1..Len(s) : s[i] = "." /\ \A j \in 1..(i - 1) : s[j] # "."
    ELSE 0
\* float(text): surrounding whitespace, an optional sign, then nan, inf,
\* infinity in any case, or digits with an optional fraction; fractions are
\* read to the tenth, the resolution of the float values modelled here
py_float(text) ==
    LET s == strip(text.s)
        body == Unsigned(s)
        word == lower(body)
        d == DotAt(body)
        ip == IF d = 0 THEN body ELSE SubSeq(body, 1, d - 1)
        fp == IF d = 0 THEN <<>> ELSE SubSeq(body, d + 1, Len(body))
    IN  CASE word = <<"n","a","n">> -> PyFloat("nan", 0, 0)
          [] word \in {<<"i","n","f">>, <<"i","n","f","i","n","i","t","y">>} ->
                PyFloat(IF Sign(s) = -1 THEN "-inf" ELSE "inf", 0, 0)
          [] OTHER ->
                IF /\ ip \o fp # <<>>
                   /\ ip = <<>> \/ IsDigits(ip)
                   /\ fp = <<>> \/ (IsDigits(fp) /\ Len(fp) = 1)
                THEN PyFloat("fin", Sign(s) * (10 * ParseNat(ip) + ParseNat(fp)), 0)
                ELSE ValueError

Abs(n) == IF n < 0 THEN -n ELSE n
\* str(val) of an int or of a float; the str() of a float keeps 12
\* significant digits, so the digits counted by lo are not printed
py_str(v) ==
    CASE type(v) = "int" ->
            PyStr((IF v.n < 0 THEN <<"-">> ELSE <<>>) \o NatToText(Abs(v.n)))
      [] type(v) = "float" /\ v.k = "nan" -> PyStr(<<"n","a","n">>)
      [] type(v) = "float" /\ v.k = "inf" -> PyStr(<<"i","n","f">>)
      [] type(v) = "float" /\ v.k = "-inf" -> PyStr(<<"-","i","n","f">>)
      [] OTHER ->
            PyStr((IF v.n < 0 THEN <<"-">> ELSE <<>>)
                  \o NatToText(Abs(v.n) \div 10) \o <<".">>
                  \o NatToText(Abs(v.n) % 10))

\* utils.isDist: a number followed by a unit or a percent sign
Units == {<<"p","t">>, <<"c","m">>, <<"m","m">>, <<"i","n">>, <<"%">>}
isDist(v) ==
    /\ type(v) = "str"
    /\ \E i \in 1..Len(v.s) :
          /\ IsDigits(SubSeq(v.s, 1, i))
          /\ SubSeq(v.s, i + 1, Len(v.s)) \in Units

(* ------------------------ variant policies ----------------------------- *)

IsRaise(r) == type(r) = "raise"
\* "x in list": some element is x or equals it
InList(v, L) == \E i \in 1..Len(L) : L[i] = v \/ PyEq(L[i], v)
\* truth value of a stored value in "if self.val:"
Truthy(v) ==
    CASE type(v) = "bool" -> v.b
      [] type(v) = "int" -> v.n # 0
      [] type(v) = "float" -> ~(v.k = "fin" /\ v.n = 0 /\ v.lo = 0)
      [] type(v) = "str" -> v.s # <<>>
      [] type(v) = "NoneType" -> FALSE
      [] OTHER -> TRUE

Setting_convertFrom(v) == v

Str_convertTo(v) == IF type(v) = "str" THEN v ELSE InvalidType
Str_toText(v) == v
Str_fromText(text) == text

Bool_convertTo(v) == IF type(v) \in {"bool", "int"} THEN py_bool(v) ELSE InvalidType
Bool_toText(v) ==
    IF Truthy(v) THEN PyStr(<<"T","r","u","e">>) ELSE PyStr(<<"F","a","l","s","e">>)
BoolTrueWords == {<<"t","r","u","e">>, <<"1">>, <<"t">>, <<"y">>, <<"y","e","s">>}
BoolFalseWords == {<<"f","a","l","s","e">>, <<"0">>, <<"f">>, <<"n">>, <<"n","o">>}
\* Bool.fromText without the lower(): upper-case spellings are refused
Bool_fromText_noLower(text) ==
    LET t == strip(text.s)
    IN  IF t \in BoolTrueWords THEN PyBool(TRUE)
        ELSE IF t \in BoolFalseWords THEN PyBool(FALSE)
        ELSE InvalidType
Bool_fromText(text) ==
    LET t == lower(strip(text.s))
    IN  IF t \in BoolTrueWords THEN PyBool(TRUE)
        ELSE IF t \in BoolFalseWords THEN PyBool(FALSE)
        ELSE InvalidType

Int_convertTo(v) == IF type(v) = "int" THEN v ELSE InvalidType
Int_toText(v) == py_str(v)
Int_fromText(text) == IF py_int(text) = ValueError THEN InvalidType ELSE py_int(text)

Float_convertTo(v) == IF type(v) \in {"float", "int"} THEN py_float_num(v) ELSE InvalidType
Float_toText(v) == py_str(v)
Float_fromText(text) == IF py_float(text) = ValueError THEN InvalidType ELSE py_float(text)

AutoWord == <<"a","u","t","o">>
AutoText == PyStr(<<"A","u","t","o">>)

\* FloatOrAuto.convertTo without the lower(): only "auto" is the sentinel
FloatOrAuto_convertTo_caseSensitive(v) ==
    IF type(v) \in {"int", "float"} THEN py_float_num(v)
    ELSE IF type(v) = "str" /\ strip(v.s) = AutoWord THEN PyNone
    ELSE InvalidType
FloatOrAuto_convertTo(v) ==
    IF type(v) \in {"int", "float"} THEN py_float_num(v)
    ELSE IF type(v) = "str" /\ lower(strip(v.s)) = AutoWord THEN PyNone
    ELSE InvalidType
FloatOrAuto_convertFrom(v) == IF v = PyNone THEN AutoText ELSE v
FloatOrAuto_toText(v) == IF v = PyNone THEN AutoText ELSE py_str(v)
FloatOrAuto_fromText(text) ==
    IF lower(strip(text.s)) = AutoWord THEN AutoText
    ELSE IF py_float(text) = ValueError THEN InvalidType
    ELSE py_float(text)

IntOrAuto_convertTo(v) ==
    IF type(v) = "int" THEN v
    ELSE IF type(v) = "str" /\ lower(strip(v.s)) = AutoWord THEN PyNone
    ELSE InvalidType
IntOrAuto_convertFrom(v) == IF v = PyNone THEN AutoText ELSE v
IntOrAuto_toText(v) == IF v = PyNone THEN AutoText ELSE py_str(v)
IntOrAuto_fromText(text) ==
    IF lower(strip(text.s)) = AutoWord THEN AutoText
    ELSE IF py_int(text) = ValueError THEN InvalidType
    ELSE py_int(text)

Distance_convertTo(v) == IF isDist(v) THEN v ELSE InvalidType
Distance_toText(v) == v
Distance_fromText(text) == IF isDist(text) THEN text ELSE InvalidType

\* Choice.convertTo matching the list ignoring case
Choice_convertTo_ignoreCase(vl, v) ==
    IF type(v) = "str" /\ \E i \in 1..Len(vl) : lower(vl[i].s) = lower(v.s)
    THEN v
    ELSE InvalidType
Choice_convertTo(vl, v) == IF InList(v, vl) THEN v ELSE InvalidType
Choice_toText(v) == v
Choice_fromText(vl, text) == IF InList(text, vl) THEN text ELSE InvalidType

ChoiceOrMore_convertTo(v) == v
ChoiceOrMore_toText(v) == v
ChoiceOrMore_fromText(text) == text

Kinds == {"Str", "Bool", "Int", "Float", "FloatOrAuto", "IntOrAuto",
          "Distance", "Choice", "ChoiceOrMore"}

\* self.convertTo(val) of a setting of class k with self.vallist = vl
convertTo(k, vl, v) ==
    CASE k = "Str" -> Str_convertTo(v)
      [] k = "Bool" -> Bool_convertTo(v)
      [] k = "Int" -> Int_convertTo(v)
      [] k = "Float" -> Float_convertTo(v)
      [] k = "FloatOrAuto" -> FloatOrAuto_convertTo(v)
      [] k = "IntOrAuto" -> IntOrAuto_convertTo(v)
      [] k = "Distance" -> Distance_convertTo(v)
      [] k = "Choice" -> Choice_convertTo(vl, v)
      [] k = "ChoiceOrMore" -> ChoiceOrMore_convertTo(v)

\* self.convertFrom(val)
convertFrom(k, v) ==
    CASE k = "FloatOrAuto" -> FloatOrAuto_convertFrom(v)
      [] k = "IntOrAuto" -> IntOrAuto_convertFrom(v)
      [] OTHER -> Setting_convertFrom(v)

\* self.toText() of a setting of class k holding self.val = v
toTextOf(k, v) ==
    CASE k = "Str" -> Str_toText(v)
      [] k = "Bool" -> Bool_toText(v)
      [] k = "Int" -> Int_toText(v)
      [] k = "Float" -> Float_toText(v)
      [] k = "FloatOrAuto" -> FloatOrAuto_toText(v)
      [] k = "IntOrAuto" -> IntOrAuto_toText(v)
      [] k = "Distance" -> Distance_toText(v)
      [] k = "Choice" -> Choice_toText(v)
      [] k = "ChoiceOrMore" -> ChoiceOrMore_toText(v)

\* self.fromText(text)
fromTextOf(k, vl, text) ==
    CASE k = "Str" -> Str_fromText(text)
      [] k = "Bool" -> Bool_fromText(text)
      [] k = "Int" -> Int_fromText(text)
      [] k = "Float" -> Float_fromText(text)
      [] k = "FloatOrAuto" -> FloatOrAuto_fromText(text)
      [] k = "IntOrAuto" -> IntOrAuto_fromText(text)
      [] k = "Distance" -> Distance_fromText(text)
      [] k = "Choice" -> Choice_fromText(vl, text)
      [] k = "ChoiceOrMore" -> ChoiceOrMore_fromText(text)

\* self.get()
getOf(k, v) == convertFrom(k, v)
\* self.isDefault()
isDefaultOf(k, v, d) == PyBool(PyEq(getOf(k, v), d))

(* ------------------------ callers' inputs ------------------------------ *)

\* the allowed lists a Choice or ChoiceOrMore is built with
ValLists == {<<PyStr(<<"a">>), PyStr(<<"b">>)>>, <<PyStr(<<"c">>)>>}

\* texts callers pass to fromText, per variant: the spellings its parser
\* tells apart
TextsOf(k) ==
    CASE k = "Str" -> {<<>>, <<"a">>, <<" ","A"," ">>}
      [] k = "Bool" ->
            BoolTrueWords \cup BoolFalseWords \cup
            {<<"Y","E","S">>, <<"T","r","u","e">>, <<"F","a","l","s","e">>,
             <<" ","y","e","s"," ">>, <<"N","o","\n">>, <<"m","a","y","b","e">>,
             <<"2">>, <<>>}
      [] k = "Int" ->
            {<<"1">>, <<"-","1">>, <<" ","1","2"," ">>, <<"+","2">>,
             <<"1",".","5">>, <<"a">>, <<>>}
      [] k = "Float" ->
            {<<"1">>, <<"1",".","5">>, <<"-","0",".","5">>, <<" ","2",".","0">>,
             <<"n","a","n">>, <<"I","n","f">>, <<"a">>, <<>>}
      [] k = "FloatOrAuto" ->
            {<<"a","u","t","o">>, <<"A","u","t","o">>, <<"A","U","T","O">>,
             <<" ","a","u","t","o"," ">>, <<"a","u","t">>, <<"1",".","5">>,
             <<"1">>, <<>>}
      [] k = "IntOrAuto" ->
            {<<"a","u","t","o">>, <<"A","u","t","o">>, <<"A","U","T","O">>,
             <<"\t","A","u","t","o">>, <<"a","u","t">>, <<"1",".","5">>,
             <<"1">>, <<>>}
      [] k = "Distance" ->
            {<<"1","p","t">>, <<"3","%">>, <<"1","2","c","m">>, <<"1">>,
             <<"p","t">>, <<>>}
      [] k = "Choice" -> {<<"a">>, <<"b">>, <<"c">>, <<"A">>, <<" ","a">>, <<>>}
      [] k = "ChoiceOrMore" -> {<<"a">>, <<"c">>, <<"A">>, <<>>}

\* texts callers pass as values to __init__, set and newDefault
SetTextsOf(k) ==
    CASE k = "Str" -> {<<>>, <<"a">>, <<" ","A"," ">>}
      [] k = "Bool" -> {<<"1">>, <<"T","r","u","e">>}
      [] k = "Int" -> {<<"1">>, <<"a">>}
      [] k = "Float" -> {<<"1",".","5">>, <<"n","a","n">>}
      [] k = "FloatOrAuto" ->
            {<<"a","u","t","o">>, <<"A","u","t","o">>,
             <<" ","A","U","T","O"," ">>, <<"a","u","t">>, <<"1">>}
      [] k = "IntOrAuto" ->
            {<<"a","u","t","o">>, <<"A","u","t","o">>,
             <<"\t","A","U","T","O">>, <<"a","u","t">>, <<"1">>}
      [] k = "Distance" -> {<<"1","p","t">>, <<"3","%">>, <<"1">>, <<"p","t">>}
      [] k = "Choice" -> {<<"a">>, <<"b">>, <<"c">>, <<"A">>}
      [] k = "ChoiceOrMore" -> {<<"a">>, <<"c">>, <<"A">>}

Ints == (-MaxInt)..MaxInt
\* 1.0, a float with more digits than str() prints, and a NaN
Floats == {PyFloat("fin", 10, 0), PyFloat("fin", 15, 1), PyFloat("nan", 0, 0)}
\* values callers pass to __init__, set and newDefault
ValuesOf(k) ==
    {PyNone, PyBool(TRUE), PyBool(FALSE)} \cup {PyInt(n) : n \in Ints}
    \cup Floats \cup {PyStr(t) : t \in SetTextsOf(k)}

\* the callbacks callers register
Callbacks == {"f", "g"}

(* --------------------------- the setting ------------------------------- *)

\* the calls "for i in self.onmodified: i(True)" makes, in order
Notify(obs) == [i \in 1..Len(obs) |-> [fn |-> obs[i], with |-> TRUE]]

\* Setting.set assigning before it validates
Setting_set_storeFirst(x, obs) ==
    LET c == convertTo(kind, vallist, x)
    IN  IF IsRaise(c)
        THEN /\ val' = x
             /\ calls' = <<>>
             /\ ret' = c
        ELSE /\ val' = c
             /\ calls' = Notify(obs)
             /\ ret' = PyNone
\* Setting.set storing the caller's value instead of the converted one
Setting_set_unconverted(x, obs) ==
    LET c == convertTo(kind, vallist, x)
    IN  IF IsRaise(c)
        THEN /\ val' = val
             /\ calls' = <<>>
             /\ ret' = c
        ELSE /\ val' = x
             /\ calls' = Notify(obs)
             /\ ret' = PyNone
\* Setting.set notifying only when the stored value changes
Setting_set_onlyOnChange(x, obs) ==
    LET c == convertTo(kind, vallist, x)
    IN  IF IsRaise(c)
        THEN /\ val' = val
             /\ calls' = <<>>
             /\ ret' = c
        ELSE /\ val' = c
             /\ calls' = (IF c = val THEN <<>> ELSE Notify(obs))
             /\ ret' = PyNone

\* Setting.set(val) on a setting whose observer list is obs
Setting_set(x, obs) ==
    LET c == convertTo(kind, vallist, x)
    IN  IF IsRaise(c)
        THEN /\ val' = val
             /\ calls' = <<>>
             /\ ret' = c
        ELSE /\ val' = c
             /\ calls' = Notify(obs)
             /\ ret' = PyNone

Init ==
    /\ kind \in Kinds
    /\ vallist \in (IF kind \in {"Choice", "ChoiceOrMore"} THEN ValLists ELSE {<<>>})
    /\ constructed = FALSE
    /\ val = NoAttr
    /\ default = NoAttr
    /\ onmodified = <<>>
    /\ op = "none"
    /\ arg = PyNone
    /\ ret = PyNone
    /\ calls = <<>>

\* Setting.__init__(name, val): a constructor that raises yields no setting
init(x) ==
    /\ ~constructed
    /\ op' = "__init__"
    /\ arg' = x
    /\ Setting_set(x, <<>>)
    /\ IF IsRaise(ret')
       THEN UNCHANGED <<constructed, default, onmodified>>
       ELSE /\ constructed' = TRUE
            /\ default' = x
            /\ onmodified' = <<>>
    /\ UNCHANGED <<kind, vallist>>

setOnModified(fn) ==
    /\ constructed
    /\ Len(onmodified) < MaxObs
    /\ op' = "setOnModified"
    /\ arg' = PyStr(<<fn>>)
    /\ onmodified' = Append(onmodified, fn)
    /\ ret' = PyNone
    /\ calls' = <<>>
    /\ UNCHANGED <<kind, vallist, constructed, val, default>>

newDefault(x) ==
    /\ constructed
    /\ op' = "newDefault"
    /\ arg' = x
    /\ default' = x
    /\ Setting_set(x, onmodified)
    /\ UNCHANGED <<kind, vallist, constructed, onmodified>>

isDefault ==
    /\ constructed
    /\ op' = "isDefault"
    /\ arg' = PyNone
    /\ ret' = isDefaultOf(kind, val, default)
    /\ calls' = <<>>
    /\ UNCHANGED <<kind, vallist, constructed, val, default, onmodified>>

get ==
    /\ constructed
    /\ op' = "get"
    /\ arg' = PyNone
    /\ ret' = getOf(kind, val)
    /\ calls' = <<>>
    /\ UNCHANGED <<kind, vallist, constructed, val, default, onmodified>>

set(x) ==
    /\ constructed
    /\ op' = "set"
    /\ arg' = x
    /\ Setting_set(x, onmodified)
    /\ UNCHANGED <<kind, vallist, constructed, default, onmodified>>

toText ==
    /\ constructed
    /\ op' = "toText"
    /\ arg' = PyNone
    /\ ret' = toTextOf(kind, val)
    /\ calls' = <<>>
    /\ UNCHANGED <<kind, vallist, constructed, val, default, onmodified>>

\* fromText keeping what it parsed in self.val
fromText_storing(text) ==
    /\ constructed
    /\ op' = "fromText"
    /\ arg' = text
    /\ ret' = fromTextOf(kind, vallist, text)
    /\ calls' = <<>>
    /\ val' = (IF IsRaise(ret') THEN val ELSE ret')
    /\ UNCHANGED <<kind, vallist, constructed, default, onmodified>>

fromText(text) ==
    /\ constructed
    /\ op' = "fromText"
    /\ arg' = text
    /\ ret' = fromTextOf(kind, vallist, text)
    /\ calls' = <<>>
    /\ UNCHANGED <<kind, vallist, constructed, val, default, onmodified>>

Next ==
    \/ \E x \in ValuesOf(kind) : init(x)
    \/ \E fn \in Callbacks : setOnModified(fn)
    \/ \E x \in ValuesOf(kind) : newDefault(x)
    \/ isDefault
    \/ get
    \/ \E x \in ValuesOf(kind) : set(x)
    \/ toText
    \/ \E t \in TextsOf(kind) : fromText(PyStr(t))
    \/ op = "toText" /\ fromText(ret)

Spec == Init /\ [][Next]_vars

(* ============================ claims ================================== *)

Raised == IsRaise(ret)
OrAuto == {"FloatOrAuto", "IntOrAuto"}
ReadOnlyOps == {"get", "isDefault", "toText", "fromText"}

\* C1: the stored value of a constructed setting is always convertTo of some
\* value convertTo accepted; a rejected value is never stored
C1_StoredValueAccepted ==
    constructed =>
        \E x \in ValuesOf(kind) :
            /\ ~IsRaise(convertTo(kind, vallist, x))
            /\ val = convertTo(kind, vallist, x)
\* a refused set on a FloatOrAuto that holds the sentinel
C1_Witness ==
    /\ constructed /\ kind = "FloatOrAuto" /\ op = "set" /\ Raised
    /\ val = PyNone

\* C2: set(v) with a value convertTo rejects raises InvalidType and leaves
\* stored value, default and observer list as they were, so get(), toText()
\* and isDefault() answer as before
C2_RejectedSetLeavesState ==
    [][(op' = "set" /\ IsRaise(convertTo(kind, vallist, arg'))) =>
        /\ ret' = InvalidType
        /\ val' = val /\ default' = default /\ onmodified' = onmodified
        /\ getOf(kind, val') = getOf(kind, val)
        /\ toTextOf(kind, val') = toTextOf(kind, val)
        /\ isDefaultOf(kind, val', default') = isDefaultOf(kind, val, default)]_vars
\* a Choice with an observer has refused a set
C2_Witness ==
    /\ kind = "Choice" /\ op = "set" /\ ret = InvalidType
    /\ onmodified # <<>> /\ val \in Range(vallist)

\* C3: a successful set calls every registered observer once, with True, in
\* registration order, whether or not the value changes; a set that raises
\* calls none
C3_ObserversNotified ==
    [][op' = "set" =>
        IF IsRaise(ret')
        THEN calls' = <<>>
        ELSE /\ Len(calls') = Len(onmodified)
             /\ \A i \in 1..Len(onmodified) :
                    calls'[i].fn = onmodified[i] /\ calls'[i].with = TRUE]_vars
\* a successful set of the value already stored has called two different
\* observers
C3_Witness ==
    /\ op = "set" /\ ~Raised /\ Len(calls) = 2 /\ calls[1].fn # calls[2].fn
    /\ kind = "Int" /\ default = arg /\ val = arg

\* C4: isDefault() is true right after construction with an accepted value
\* and right after a newDefault that succeeds
C4_DefaultAfterInit ==
    (constructed /\ op \in {"__init__", "newDefault"} /\ ~Raised) =>
        isDefaultOf(kind, val, default) = PyBool(TRUE)

\* C5: fromText of the text toText returned does not raise and returns a
\* value equal to the stored value
C5_RoundTrip ==
    [][(op = "toText" /\ op' = "fromText" /\ arg' = ret) =>
        ~IsRaise(ret') /\ PyEq(ret', val)]_vars

\* C6: a newDefault that raises leaves default, stored value and observers
\* as they were and calls no observer; one that succeeds makes its argument
\* the default and get() the external form of it
C6_NewDefaultAtomic ==
    [][op' = "newDefault" =>
        IF IsRaise(ret')
        THEN /\ default' = default /\ val' = val /\ onmodified' = onmodified
             /\ calls' = <<>>
        ELSE /\ default' = arg'
             /\ getOf(kind, val') = convertFrom(kind, convertTo(kind, vallist, arg'))]_vars

\* C7: get, isDefault, toText and fromText change nothing and call no
\* observer, also when fromText raises; the stored value changes only in
\* set, the constructor and newDefault
C7_ReadOnlyOperations ==
    [][/\ op' \in ReadOnlyOps =>
            /\ val' = val /\ default' = default /\ onmodified' = onmodified
            /\ calls' = <<>>
       /\ val' # val => op' \in {"set", "__init__", "newDefault"}]_vars
\* fromText has raised on a setting that has an observer
C7_Witness ==
    /\ op = "fromText" /\ Raised /\ onmodified # <<>> /\ constructed

C8_IsNumberFor(k, v) == type(v) = "int" \/ (k = "FloatOrAuto" /\ type(v) = "float")
C8_AsStored(k, v) ==
    IF k = "FloatOrAuto" /\ type(v) = "int" THEN PyFloat("fin", 10 * v.n, 0) ELSE v
C8_SetOutcome(isAuto) ==
    (kind \in OrAuto /\ op' = "set") =>
        IF isAuto
        THEN /\ ~IsRaise(ret')
             /\ val' = PyNone
             /\ getOf(kind, val') = PyStr(<<"A","u","t","o">>)
             /\ toTextOf(kind, val') = PyStr(<<"A","u","t","o">>)
        ELSE IF C8_IsNumberFor(kind, arg')
        THEN /\ ~IsRaise(ret')
             /\ getOf(kind, val') = C8_AsStored(kind, arg')
             /\ toTextOf(kind, val') = py_str(C8_AsStored(kind, arg'))
        ELSE ret' = InvalidType

\* C8 as stated: on FloatOrAuto and IntOrAuto, set of text equal to "auto"
\* ignoring case stores the sentinel, which get() and toText() show as
\* "Auto"; set of a number stores it; set of anything else raises
C8_AutoOrNumber_Original ==
    [][C8_SetOutcome(type(arg') = "str" /\ lower(arg'.s) = <<"a","u","t","o">>)]_vars
\* C8 amended: the sentinel is text equal to "auto" ignoring case and
\* surrounding whitespace; a number is stored; anything else raises
C8_AutoOrNumber ==
    [][C8_SetOutcome(type(arg') = "str"
                     /\ lower(strip(arg'.s)) = <<"a","u","t","o">>)]_vars
\* a FloatOrAuto given " AUTO " holds the sentinel
C8_Witness ==
    /\ kind = "FloatOrAuto" /\ op = "set" /\ ~Raised
    /\ arg = PyStr(<<" ","A","U","T","O"," ">>) /\ val = PyNone

C10_TrueWords == {<<"t","r","u","e">>, <<"1">>, <<"t">>, <<"y">>, <<"y","e","s">>}
C10_FalseWords == {<<"f","a","l","s","e">>, <<"0">>, <<"f">>, <<"n">>, <<"n","o">>}
C10_Parse(word) ==
    (kind = "Bool" /\ op' = "fromText") =>
        IF word \in C10_TrueWords THEN ret' = PyBool(TRUE)
        ELSE IF word \in C10_FalseWords THEN ret' = PyBool(FALSE)
        ELSE ret' = InvalidType

\* C10 as stated: Bool.fromText returns True for true/1/t/y/yes and False
\* for false/0/f/n/no compared ignoring case, and raises on any other text
C10_BoolFromText_Original == [][C10_Parse(lower(arg'.s))]_vars
\* C10 amended: the text is compared ignoring case and surrounding
\* whitespace
C10_BoolFromText == [][C10_Parse(lower(strip(arg'.s)))]_vars
\* Bool.fromText has read " yes " as True
C10_Witness ==
    /\ kind = "Bool" /\ op = "fromText" /\ ret = PyBool(TRUE)
    /\ arg = PyStr(<<" ","y","e","s"," ">>)

====
